---- MODULE Spec2Model ----
(***************************************************************************)
(* Model of Utilities/Scripts/python_package_updater.py.                   *)
(*                                                                         *)
(* Python str values are TLA+ strings (Len, SubSeq and \o act on them as   *)
(* on sequences of one-character strings; positions are 1-based).  Python  *)
(* lists and insertion-ordered dicts are sequences.                        *)
(***************************************************************************)
EXTENDS Integers, Sequences, FiniteSets, TLC

VARIABLES
    pc,                 \* position of the run: start, validated, select, rewrite, done, exit, ...
    args,               \* parsed command line: validate, from_installed_packages, cpython_tag
    linesep,            \* os.linesep of the platform the tool runs on
    disk,               \* bytes of each file under the search directory, in os.walk order
    pip,                \* text printed by "pip list" and by "pip list --outdated"
    pypi,               \* what https://pypi.org/pypi/<name>/json answers, per package name
    mismatches,         \* result of validate_external_project_python_package_hints
    packages_to_update, \* dict name -> (current_version, latest_version), insertion-ordered
    lines_to_write,     \* dict name -> generated text, insertion-ordered
    i,                  \* index of the loop in progress (packages, then files)
    outcome,            \* exit status of the process: "running", 0, 1
    effects,            \* what the run has touched: listing read, packages queried, files written
    input,              \* argument handed to the function under check (pure-function specifications)
    history             \* disk contents at the start of each rewrite pass

vars == <<pc, args, linesep, disk, pip, pypi, mismatches, packages_to_update,
          lines_to_write, i, outcome, effects, input, history>>

----------------------------------------------------------------------------
(* str helpers *)

At(s, p) == SubSeq(s, p, p)

From(s, p) == SubSeq(s, p, Len(s))

StartsWithAt(s, p, lit) == p >= 1 /\ p + Len(lit) - 1 <= Len(s) /\ SubSeq(s, p, p + Len(lit) - 1) = lit

EndsWith(s, suffix) == Len(suffix) <= Len(s) /\ SubSeq(s, Len(s) - Len(suffix) + 1, Len(s)) = suffix

Contains(s, sub) == \E p \in 1..(Len(s) + 1) : StartsWithAt(s, p, sub)

Min(S) == CHOOSE x \in S : \A y \in S : x <= y

\* the concatenation of pieces[lo..hi]
RECURSIVE ConcatRange(_, _, _)
ConcatRange(pieces, lo, hi) ==
    IF lo > hi THEN ""
    ELSE IF lo = hi THEN pieces[lo]
    ELSE ConcatRange(pieces, lo, (lo + hi) \div 2) \o ConcatRange(pieces, (lo + hi) \div 2 + 1, hi)

Concat(pieces) == ConcatRange(pieces, 1, Len(pieces))

\* " " * n
Spaces(n) == Concat([k \in 1..n |-> " "])

\* the elements of a set of positions, in increasing order
Sorted(S) == [k \in 1..Cardinality(S) |-> CHOOSE x \in S : Cardinality({y \in S : y < x}) = k - 1]

RECURSIVE Join(_, _)
Join(sep, parts) ==
    IF parts = <<>> THEN ""
    ELSE IF Len(parts) = 1 THEN parts[1]
    ELSE parts[1] \o sep \o Join(sep, Tail(parts))

Max(S) == CHOOSE x \in S : \A y \in S : y <= x

CharsOf(s) == {At(s, p) : p \in 1..Len(s)}

\* \s of the re module (the ASCII part)
WhitespaceChars == {" ", "\t", "\n", "\r", "\f"}

\* \w of the re module (the ASCII part)
WordChars == CharsOf("abcdefghijklmnopqrstuvwxyzABCDEFGHIJKLMNOPQRSTUVWXYZ0123456789_")

IsSpace(c) == c \in WhitespaceChars

\* str.strip() == ""
IsBlank(s) == \A p \in 1..Len(s) : IsSpace(At(s, p))

\* the first position at or after p that holds no whitespace (Len(s) + 1: none)
SkipSpace(s, p) == Min({q \in p..(Len(s) + 1) : q = Len(s) + 1 \/ ~IsSpace(At(s, q))})

SkipNonSpace(s, p) == Min({q \in p..(Len(s) + 1) : q = Len(s) + 1 \/ IsSpace(At(s, q))})

\* str.split(): the maximal runs of non-whitespace characters
RECURSIVE SplitFrom(_, _)
SplitFrom(s, p) ==
    LET b == SkipSpace(s, p)
        e == SkipNonSpace(s, b)
    IN IF b > Len(s) THEN <<>> ELSE <<SubSeq(s, b, e - 1)>> \o SplitFrom(s, e)

split(s) == SplitFrom(s, 1)

\* str.split("\n")
split_lines(s) ==
    LET starts == Sorted({1} \cup {p + 1 : p \in {q \in 1..Len(s) : At(s, q) = "\n"}})
    IN [k \in 1..Len(starts) |->
            SubSeq(s, starts[k], IF k < Len(starts) THEN starts[k + 1] - 2 ELSE Len(s))]

----------------------------------------------------------------------------
(* Text-mode file I/O: open(filepath) and open(filepath, "w") use universal *)
(* newlines.                                                                *)

\* open(filepath).read(): "\r\n" and a lone "\r" are both read as "\n"
ReadText(bytes) ==
    Concat([p \in 1..Len(bytes) |->
                IF StartsWithAt(bytes, p, "\r\n") THEN ""
                ELSE IF At(bytes, p) = "\r" THEN "\n"
                ELSE At(bytes, p)])

\* open(filepath, "w").write(text): every "\n" is written as os.linesep
WriteText(text, sep) ==
    Concat([p \in 1..Len(text) |-> IF At(text, p) = "\n" THEN sep ELSE At(text, p)])

----------------------------------------------------------------------------
(* external_project_filepaths *)

\* the files os.walk yields, in order: os.path.join(dirpath, filename)
external_project_filepaths(d) == [k \in 1..Len(d) |-> "SuperBuild/External_" \o ToString(k) \o ".cmake"]

----------------------------------------------------------------------------
(* validate_external_project_python_package_hints *)

\* the character class [\w\-\])\])] of the hint regex
HintChars == WordChars \cup {"-", "]", ")"}

\* the first position at or after p that holds no character of the class
SkipHintChars(s, p) == Min({q \in p..(Len(s) + 1) : q = Len(s) + 1 \/ At(s, q) \notin HintChars})

\* ^ and $ under re.MULTILINE
AtLineStart(s, p) == p = 1 \/ (p >= 2 /\ p <= Len(s) + 1 /\ At(s, p - 1) = "\n")

AtLineEnd(s, p) == p = Len(s) + 1 \/ (p <= Len(s) /\ At(s, p) = "\n")

NoMatch == [ok |-> FALSE, group |-> "", tag |-> 0, end |-> 0]

\* A match of  ^\s*# \[(\/?[\w\-\])\])]+)\]$  that starts at p: \s* and the class
\* are greedy, the class gives characters back until "]" and $ follow.
HintMatch(s, p) ==
    LET q == SkipSpace(s, p)
        g == q + 3
        n == IF StartsWithAt(s, g, "/") THEN g + 1 ELSE g
        r == SkipHintChars(s, n)
        ends == {e \in (n + 1)..(r - 1) : At(s, e) = "]" /\ AtLineEnd(s, e + 1)}
    IN IF AtLineStart(s, p) /\ StartsWithAt(s, q, "# [") /\ ends # {}
       THEN [ok |-> TRUE, group |-> SubSeq(s, g, Max(ends) - 1), tag |-> q, end |-> Max(ends) + 1]
       ELSE NoMatch

\* the non-overlapping matches at or after p, leftmost first
RECURSIVE FindHintsFrom(_, _)
FindHintsFrom(s, p) ==
    LET starts == {q \in p..(Len(s) + 1) : HintMatch(s, q).ok}
    IN IF starts = {} THEN <<>>
       ELSE <<HintMatch(s, Min(starts))>> \o FindHintsFrom(s, HintMatch(s, Min(starts)).end)

\* re.findall(regex, file_text, flags=re.MULTILINE): the group of each match
find_hints(file_text) == [k \in 1..Len(FindHintsFrom(file_text, 1)) |-> FindHintsFrom(file_text, 1)[k].group]

\* _pairwise: s -> (s0, s1), (s2, s3), ...; a trailing odd element is dropped
pairwise(s) == [k \in 1..(Len(s) \div 2) |-> <<s[2 * k - 1], s[2 * k]>>]

\* second[1:]
DropFirst(s) == SubSeq(s, 2, Len(s))

HintsDisagree(first, second) == first # DropFirst(second)

\* the mismatches one file contributes
RECURSIVE PairMismatches(_, _)
PairMismatches(filepath, pairs) ==
    IF pairs = <<>> THEN <<>>
    ELSE LET first == pairs[1][1]
             second == pairs[1][2]
         IN (IF HintsDisagree(first, second) THEN <<<<filepath, first, DropFirst(second)>>>> ELSE <<>>)
            \o PairMismatches(filepath, Tail(pairs))

FileMismatches(filepath, bytes) == PairMismatches(filepath, pairwise(find_hints(ReadText(bytes))))

RECURSIVE ValidateFrom(_, _)
ValidateFrom(d, k) ==
    IF k > Len(d) THEN <<>>
    ELSE FileMismatches(external_project_filepaths(d)[k], d[k]) \o ValidateFrom(d, k + 1)

validate_external_project_python_package_hints(d) == ValidateFrom(d, 1)

----------------------------------------------------------------------------
(* dict: an insertion-ordered sequence of <<key, value>> *)

DictKeys(d) == {d[k][1] : k \in 1..Len(d)}

DictGet(d, key) == d[CHOOSE k \in 1..Len(d) : d[k][1] = key][2]

\* d[key] = value: a key already present keeps its place
DictSet(d, key, value) ==
    IF key \in DictKeys(d)
    THEN [k \in 1..Len(d) |-> IF d[k][1] = key THEN <<key, value>> ELSE d[k]]
    ELSE Append(d, <<key, value>>)

----------------------------------------------------------------------------
(* execute_pip_list and parse_pip_list_output *)

\* pip_list.split("\n")
execute_pip_list(output) == split_lines(output)

\* the 1-based positions of range(2, len(packages_to_update) - 1)
RowRangeFromSecondHeading(lines) == 2..(Len(lines) - 1)

RowRange(lines) == 3..(Len(lines) - 1)

\* One data row: ['asn1crypto', '0.24.0', '1.4.0', 'wheel'].  details[1] of a
\* row with a single token raises IndexError.
RowRaises(line) == Len(split(line)) < 2

RowName(line) == split(line)[1]

RowVersions(line) ==
    LET details == split(line)
        current_version == details[2]
        latest_version == IF Len(details) >= 3 THEN details[3] ELSE current_version
    IN <<current_version, latest_version>>

\* the for loop, from position k on: stops at the first blank line
RECURSIVE ParseRows(_, _, _)
ParseRows(lines, k, packages) ==
    IF k \notin RowRange(lines) THEN [raised |-> FALSE, packages |-> packages]
    ELSE IF IsBlank(lines[k]) THEN [raised |-> FALSE, packages |-> packages]
    ELSE IF RowRaises(lines[k]) THEN [raised |-> TRUE, packages |-> packages]
    ELSE ParseRows(lines, k + 1, DictSet(packages, RowName(lines[k]), RowVersions(lines[k])))

parse_pip_list_output(lines) ==
    IF RowRange(lines) = {} THEN [raised |-> FALSE, packages |-> <<>>]
    ELSE ParseRows(lines, CHOOSE k \in RowRange(lines) : \A j \in RowRange(lines) : k <= j, <<>>)

----------------------------------------------------------------------------
(* update_external_project_python_packages: the package loop *)

\* f"cp{major}{minor}" of the interpreter that runs the tool
interpreter_cpython_tag == "cp311"

indentation == 2

\* Slicer wraps VTK and SimpleITK itself
ExcludedPackages == {"vtk", "simpleitk"}

DesiredVersionSwapped(cpython_tag, current_version, latest_version) ==
    IF cpython_tag = interpreter_cpython_tag THEN current_version ELSE latest_version

desired_version(cpython_tag, current_version, latest_version) ==
    IF cpython_tag = interpreter_cpython_tag THEN latest_version ELSE current_version

\* data["releases"].get(desired_version, [])
desired_version_files(data, version) ==
    IF version \in DOMAIN data.releases THEN data.releases[version] ELSE <<>>

\* the "continue" tests of the release_file loop, without the one on the suffix
KeepsAnyPlatform(release_file, cpython_tag) ==
    /\ ~(/\ release_file.python_version \notin {"py3", "py2.py3", cpython_tag}
         /\ ~Contains(release_file.filename, "abi3"))
    /\ release_file.packagetype = "bdist_wheel"

\* the three "continue" tests of the release_file loop
Keeps(release_file, cpython_tag) ==
    /\ ~(/\ release_file.python_version \notin {"py3", "py2.py3", cpython_tag}
         /\ ~Contains(release_file.filename, "abi3"))
    /\ release_file.packagetype = "bdist_wheel"
    /\ \/ EndsWith(release_file.filename, "py3-none-any.whl")
       \/ EndsWith(release_file.filename, "64.whl")
       \/ EndsWith(release_file.filename, "universal2.whl")

RECURSIVE KeptFiles(_, _)
KeptFiles(files, cpython_tag) ==
    IF files = <<>> THEN <<>>
    ELSE (IF Keeps(files[1], cpython_tag) THEN <<files[1]>> ELSE <<>>)
         \o KeptFiles(Tail(files), cpython_tag)

FilenameLines(kept) == [k \in 1..Len(kept) |-> Spaces(indentation) \o "#  - " \o kept[k].filename]

HashItems(kept) == [k \in 1..Len(kept) |-> "--hash=sha256:" \o kept[k].digests.sha256]

\* a header for every block, also for a single wheel
BlockTextAlwaysHeader(package_name, version, filenames, hashes) ==
    LET simple_package_version == Spaces(indentation) \o package_name \o "==" \o version \o " "
        hashes_joiner_text == " \\\n" \o Spaces(Len(simple_package_version))
        all_hashes == simple_package_version \o Join(hashes_joiner_text, hashes)
        header == Spaces(indentation) \o "# Hashes correspond to the following packages:"
    IN Join("\n", <<header>> \o filenames) \o "\n" \o all_hashes

\* the text of one package, lines 152 to 162
BlockText(package_name, version, filenames, hashes) ==
    LET simple_package_version == Spaces(indentation) \o package_name \o "==" \o version \o " "
        hashes_joiner_text == " \\\n" \o Spaces(Len(simple_package_version))
        all_hashes == simple_package_version \o Join(hashes_joiner_text, hashes)
        header == Spaces(indentation) \o "# Hashes correspond to the following packages:"
    IN IF Len(filenames) > 1
       THEN Join("\n", <<header>> \o filenames) \o "\n" \o all_hashes
       ELSE all_hashes

----------------------------------------------------------------------------
(* update_external_project_python_packages: the file loop *)

\* The package name is put into the pattern unescaped: a "." in it matches
\* any character (re.DOTALL).
MatchesRawAt(s, p, raw) ==
    /\ p + Len(raw) - 1 <= Len(s)
    /\ \A k \in 1..Len(raw) : At(raw, k) = "." \/ At(raw, k) = At(s, p + k - 1)

\* "# \[name\]" (lead "# [") or "# \[/name\]" (lead "# [/") matching at p
TagMatchAt(s, p, lead, package_name) ==
    /\ StartsWithAt(s, p, lead)
    /\ MatchesRawAt(s, p + Len(lead), package_name)
    /\ StartsWithAt(s, p + Len(lead) + Len(package_name), "]")

TagLen(lead, package_name) == Len(lead) + Len(package_name) + 1

\* leftmost position >= p where the tag matches, 0 when there is none
FindTag(s, p, lead, package_name) ==
    LET found == {q \in p..Len(s) : TagMatchAt(s, q, lead, package_name)}
    IN IF found = {} THEN 0 ELSE Min(found)

\* the leftmost match of (# \[name\]).*?(# \[/name\]) at or after p: <<first, last>>
BlockMatch(s, p, package_name) ==
    LET o == FindTag(s, p, "# [", package_name)
        c == IF o = 0 THEN 0 ELSE FindTag(s, o + TagLen("# [", package_name), "# [/", package_name)
    IN IF o = 0 \/ c = 0 THEN <<0, 0>> ELSE <<o, c + TagLen("# [/", package_name) - 1>>

\* all the non-overlapping matches, leftmost first
RECURSIVE BlockSpansFrom(_, _, _)
BlockSpansFrom(s, p, package_name) ==
    LET m == BlockMatch(s, p, package_name)
    IN IF m[1] = 0 THEN <<>> ELSE <<m>> \o BlockSpansFrom(s, m[2] + 1, package_name)

BlockSpans(s, package_name) == BlockSpansFrom(s, 1, package_name)

\* The replacement is a template, read left to right: a backslash takes the
\* next character with it.  "\\" stands for one backslash and "\n" (a backslash
\* and the letter n) for a newline; a backslash before any other
\* non-alphanumeric character stays as it is, with that character.
BackslashesBefore(repl, p) == p - 1 - Max({0} \cup {q \in 1..(p - 1) : At(repl, q) # "\\"})

EscapeAt(repl, p) == p >= 1 /\ At(repl, p) = "\\" /\ p < Len(repl) /\ BackslashesBefore(repl, p) % 2 = 0

ExpandTemplate(repl) ==
    Concat([p \in 1..Len(repl) |->
                IF EscapeAt(repl, p)
                THEN (IF At(repl, p + 1) = "n" THEN "\n" ELSE "\\")
                ELSE IF EscapeAt(repl, p - 1)
                THEN (IF At(repl, p) \in {"n", "\\"} THEN "" ELSE At(repl, p))
                ELSE At(repl, p)])

\* the closing tag written without its "/"
UpdatedLineNoSlash(package_name, updated_line) ==
    "# [" \o package_name \o "]" \o "\n" \o updated_line \o Spaces(indentation) \o "# [" \o package_name \o "]"

\* line 173
UpdatedLine(package_name, updated_line) ==
    "# [" \o package_name \o "]" \o "\n" \o updated_line \o Spaces(indentation) \o "# [/" \o package_name \o "]"

\* re.sub(regex, updated_line, file_text, flags=re.DOTALL), from position p on
RECURSIVE SubFrom(_, _, _, _)
SubFrom(s, p, package_name, repl) ==
    LET m == BlockMatch(s, p, package_name)
    IN IF m[1] = 0 THEN From(s, p)
       ELSE SubSeq(s, p, m[1] - 1) \o ExpandTemplate(repl) \o SubFrom(s, m[2] + 1, package_name, repl)

re_sub(package_name, repl, file_text) == SubFrom(file_text, 1, package_name, repl)

\* the inner loop over lines_to_write, from entry k on
RECURSIVE RewriteText(_, _, _)
RewriteText(file_text, to_write, k) ==
    IF k > Len(to_write) THEN file_text
    ELSE RewriteText(re_sub(to_write[k][1], UpdatedLine(to_write[k][1], to_write[k][2]), file_text),
                     to_write, k + 1)

\* One file of the outer loop: read, substitute each package, write after each
\* substitution.  With nothing to write the file is only read.
RewriteFileBytes(bytes, to_write, sep) ==
    IF to_write = <<>> THEN bytes
    ELSE WriteText(RewriteText(ReadText(bytes), to_write, 1), sep)

----------------------------------------------------------------------------
(* main *)

\* lines 218 to 221: without --cpython-tag the interpreter's own tag is used
CpythonTag(a) == IF a.cpython_tag = "" THEN interpreter_cpython_tag ELSE a.cpython_tag

ShouldExitOnlyWhenAsked(validate, found) == validate

\* line 212
ShouldExit(validate, found) == validate \/ Len(found) > 0

\* sys.exit(0) ends with status 0; sys.exit(<the summary str>) prints it and ends with status 1
ExitOutcome(found) == IF Len(found) = 0 THEN "zero" ELSE "nonzero"

\* lines 225 to 230: which pip listing is read
ListingSource(from_installed_packages, cpython_tag) ==
    IF from_installed_packages THEN "installed"
    ELSE IF cpython_tag = interpreter_cpython_tag THEN "outdated"
    ELSE "installed"

\* where the run stands once `packages` are known and loop `phase` reaches index k
NextStep(packages, d, phase, k) ==
    IF phase = "select" /\ k <= Len(packages) THEN <<"select", k>>
    ELSE IF phase = "select" THEN (IF Len(d) >= 1 THEN <<"rewrite", 1>> ELSE <<"done", 0>>)
    ELSE IF k <= Len(d) THEN <<"rewrite", k>>
    ELSE <<"done", 0>>

Goto(step) ==
    /\ pc' = step[1]
    /\ i' = step[2]
    /\ outcome' = IF step[1] = "done" THEN "zero" ELSE outcome

\* an exception nobody catches: traceback, status 1
Raise ==
    /\ pc' = "exit"
    /\ outcome' = "nonzero"
    /\ i' = i

\* line 209
Validate ==
    /\ pc = "start"
    /\ mismatches' = validate_external_project_python_package_hints(disk)
    /\ pc' = "validated"
    /\ UNCHANGED <<args, linesep, disk, pip, pypi, packages_to_update, lines_to_write, i,
                   outcome, effects, input, history>>

\* lines 212 and 213
ExitAfterValidation ==
    /\ pc = "validated"
    /\ ShouldExit(args.validate, mismatches)
    /\ pc' = "exit"
    /\ outcome' = ExitOutcome(mismatches)
    /\ UNCHANGED <<args, linesep, disk, pip, pypi, mismatches, packages_to_update,
                   lines_to_write, i, effects, input, history>>

\* lines 215 to 230
ReadListing ==
    /\ pc = "validated"
    /\ ~ShouldExit(args.validate, mismatches)
    /\ LET source == ListingSource(args.from_installed_packages, CpythonTag(args))
           parsed == parse_pip_list_output(execute_pip_list(pip[source]))
       IN /\ effects' = [effects EXCEPT !.listing = source]
          /\ IF parsed.raised
             THEN Raise /\ UNCHANGED packages_to_update
             ELSE /\ packages_to_update' = parsed.packages
                  /\ Goto(NextStep(parsed.packages, disk, "select", 1))
    /\ UNCHANGED <<args, linesep, disk, pip, pypi, mismatches, lines_to_write, input, history>>

\* one round of the loop of lines 120 to 165
SelectPackage ==
    /\ pc = "select"
    /\ LET package_name == packages_to_update[i][1]
           current_version == packages_to_update[i][2][1]
           latest_version == packages_to_update[i][2][2]
           cpython_tag == CpythonTag(args)
           version == desired_version(cpython_tag, current_version, latest_version)
           kept == KeptFiles(desired_version_files(pypi[package_name], version), cpython_tag)
       IN IF package_name \in ExcludedPackages
          THEN /\ Goto(NextStep(packages_to_update, disk, "select", i + 1))
               /\ UNCHANGED <<lines_to_write, effects>>
          ELSE /\ effects' = [effects EXCEPT !.queried = Append(@, package_name)]
               /\ IF pypi[package_name].kind # "ok"
                  THEN Raise /\ UNCHANGED lines_to_write
                  ELSE /\ lines_to_write' =
                            IF HashItems(kept) = <<>> THEN lines_to_write
                            ELSE DictSet(lines_to_write, package_name,
                                         BlockText(package_name, version, FilenameLines(kept),
                                                   HashItems(kept)) \o "\n")
                       /\ Goto(NextStep(packages_to_update, disk, "select", i + 1))
    /\ UNCHANGED <<args, linesep, disk, pip, pypi, mismatches, packages_to_update, input, history>>

\* one round of the loop of lines 167 to 176
RewriteFile ==
    /\ pc = "rewrite"
    /\ disk' = [disk EXCEPT ![i] = RewriteFileBytes(disk[i], lines_to_write, linesep)]
    /\ effects' = [effects EXCEPT !.written = IF lines_to_write = <<>> THEN @ ELSE @ \cup {i}]
    /\ Goto(NextStep(packages_to_update, disk, "rewrite", i + 1))
    /\ UNCHANGED <<args, linesep, pip, pypi, mismatches, packages_to_update, lines_to_write,
                   input, history>>

Next == Validate \/ ExitAfterValidation \/ ReadListing \/ SelectPackage \/ RewriteFile

----------------------------------------------------------------------------
(* The environment of a run *)

NoEffects == [listing |-> "none", queried |-> <<>>, written |-> {}]

InstalledListing == "Package Version\n------- -------\na       1\nba      1\nvtk     9\n"

OutdatedListing == "Package Version Latest Type\n------- ------- ------ -----\na       1       2      wheel\nba      1       2      wheel\n"

OutdatedListingOne == "Package Version Latest Type\n------- ------- ------ -----\nba      1       3      wheel\n"

PackageNames == {"a", "ba"}

ReleaseFile(filename, python_version, packagetype, sha256) ==
    [filename |-> filename, python_version |-> python_version, packagetype |-> packagetype,
     digests |-> [sha256 |-> sha256]]

PureWheel == ReleaseFile("pkg-py3-none-any.whl", "py3", "bdist_wheel", "d1")

Win64Wheel == ReleaseFile("pkg-cp311-win_amd64.whl", "cp311", "bdist_wheel", "d2")

Win32Wheel == ReleaseFile("pkg-cp311-win32.whl", "cp311", "bdist_wheel", "d3")

SourceDist == ReleaseFile("pkg.tar.gz", "source", "sdist", "d4")

Abi3Wheel == ReleaseFile("pkg-cp36-abi3-macosx_universal2.whl", "cp36", "bdist_wheel", "d5")

OldWheel == ReleaseFile("pkg-cp39-manylinux_x86_64.whl", "cp39", "bdist_wheel", "d6")

ReleaseFiles == {PureWheel, Win64Wheel, Win32Wheel, SourceDist, Abi3Wheel, OldWheel}

Answer(releases) == [kind |-> "ok", releases |-> releases]

\* requests.get raises (no network)
NetworkError == [kind |-> "raise", releases |-> <<>>]

\* the index answers {"message": "Not Found"}: data["releases"] raises KeyError
NotFound == [kind |-> "no releases", releases |-> <<>>]

Releases(one, two) == [v \in {"1", "2"} |-> IF v = "1" THEN one ELSE two]

SeqsUpTo(S, n) == UNION {[1..k -> S] : k \in 0..n}

Started ==
    /\ pc = "start"
    /\ mismatches = <<>>
    /\ packages_to_update = <<>>
    /\ lines_to_write = <<>>
    /\ i = 0
    /\ outcome = "running"
    /\ effects = NoEffects
    /\ input = <<>>
    /\ history = <<disk>>

AllArgs == [validate : BOOLEAN, from_installed_packages : BOOLEAN, cpython_tag : {"", "cp311", "cp39"}]

GoodBlockA == "set(requirements\n# [a]\n  a==0 --hash=sha256:00\n  # [/a]\n)\n"

GoodBlockB == "# [ba]\n# [/ba]\n"

BadBlock == "# [a]\n# [/ba]\n"

(* Spec: whole runs of main over small trees, listings and index answers *)
Init ==
    /\ args \in AllArgs
    /\ linesep = "\n"
    /\ disk \in {<<>>, <<GoodBlockA>>, <<GoodBlockA, GoodBlockB>>, <<GoodBlockB, BadBlock>>}
    /\ pip \in {[installed |-> InstalledListing, outdated |-> OutdatedListing],
                [installed |-> InstalledListing, outdated |-> OutdatedListingOne]}
    /\ pypi \in [PackageNames -> {NetworkError, NotFound,
                                  Answer(Releases(<<OldWheel>>, <<PureWheel, Win32Wheel>>)),
                                  Answer(Releases(<<Win32Wheel>>, <<SourceDist>>)),
                                  Answer(Releases(<<PureWheel>>, <<Win64Wheel>>))}]
    /\ Started

Spec == Init /\ [][Next]_vars

(* SpecFiles: whole runs of main over one file of any content built from    *)
(* delimiter lines, text and line ends; both packages have eligible wheels. *)
MaxChunks == 4

Chunks == {"# [a]\n", "# [/a]\n", "# [ba]\n", "# [/ba]\n", "x", "\r\n"}

FileContents == {Concat(c) : c \in SeqsUpTo(Chunks, MaxChunks)}

RewriteChunks == {"# [a]\n", "# [/a]\n", "# [ba]\n", "# [/ba]\n", "x\r\n"}

RewriteContents == {Concat(c) : c \in SeqsUpTo(RewriteChunks, MaxChunks)}

GoodIndex == [n \in PackageNames |-> Answer(Releases(<<OldWheel>>, <<PureWheel, Win64Wheel>>))]

InitFiles ==
    /\ args = [validate |-> FALSE, from_installed_packages |-> FALSE, cpython_tag |-> ""]
    /\ linesep \in {"\n", "\r\n"}
    /\ disk \in {<<c>> : c \in FileContents}
    /\ pip = [installed |-> InstalledListing, outdated |-> OutdatedListing]
    /\ pypi = GoodIndex
    /\ Started

SpecFiles == InitFiles /\ [][Next]_vars

(* SpecIndex: whole runs of main over any short list of release files for   *)
(* package a.                                                               *)
MaxReleaseFiles == 2

InitIndex ==
    /\ args \in [validate : BOOLEAN, from_installed_packages : {FALSE}, cpython_tag : {"", "cp39"}]
    /\ linesep = "\n"
    /\ disk = <<GoodBlockA>>
    /\ pip = [installed |-> InstalledListing, outdated |-> OutdatedListing]
    /\ pypi \in {[n \in PackageNames |-> IF n = "a" THEN Answer(Releases(files, files))
                                          ELSE Answer(Releases(<<OldWheel>>, <<PureWheel>>))] :
                  files \in SeqsUpTo(ReleaseFiles, MaxReleaseFiles)}
    /\ Started

SpecIndex == InitIndex /\ [][Next]_vars

(* SpecRewrite: the file loop of update_external_project_python_packages    *)
(* applied to any file content and mapping, and then once more.             *)
BlockMappings ==
    LET one == BlockText("a", "2", FilenameLines(<<PureWheel>>), HashItems(<<PureWheel>>)) \o "\n"
        two == BlockText("ba", "1", FilenameLines(<<PureWheel, Win64Wheel>>),
                         HashItems(<<PureWheel, Win64Wheel>>)) \o "\n"
    IN {<<>>, <<<<"a", one>>>>, <<<<"a", one>>, <<"ba", two>>>>, <<<<"ba", two>>, <<"a", one>>>>}

InitRewrite ==
    /\ pc = "rewrite"
    /\ i = 1
    /\ args = [validate |-> FALSE, from_installed_packages |-> FALSE, cpython_tag |-> ""]
    /\ linesep \in {"\n", "\r\n"}
    /\ disk \in {<<c>> : c \in RewriteContents}
    /\ pip = [installed |-> InstalledListing, outdated |-> OutdatedListing]
    /\ pypi = GoodIndex
    /\ lines_to_write \in BlockMappings
    /\ mismatches = <<>>
    /\ packages_to_update = <<>>
    /\ outcome = "running"
    /\ effects = NoEffects
    /\ input = <<>>
    /\ history = <<disk>>

\* the same call made again, on the files the first call left
RewriteAgain ==
    /\ pc = "done"
    /\ Len(history) = 1
    /\ history' = Append(history, disk)
    /\ pc' = "rewrite"
    /\ i' = 1
    /\ outcome' = "running"
    /\ UNCHANGED <<args, linesep, disk, pip, pypi, mismatches, packages_to_update,
                   lines_to_write, effects, input>>

NextRewrite == RewriteFile \/ RewriteAgain

SpecRewrite == InitRewrite /\ [][NextRewrite]_vars

(* SpecParse: parse_pip_list_output applied to any listing of two heading   *)
(* lines and a few rows, with and without the empty last line.              *)
MaxRows == 3

Rows == {"a       1", "a       1       2      wheel", "ba      1       3      wheel", "vtk     9"}

Headings == <<"Package Version Latest Type", "------- ------- ------ -----">>

InitParse ==
    /\ pc = "call"
    /\ input \in {Headings \o rows \o last : rows \in SeqsUpTo(Rows, MaxRows), last \in {<<>>, <<"">>}}
    /\ args = [validate |-> FALSE, from_installed_packages |-> FALSE, cpython_tag |-> ""]
    /\ linesep = "\n"
    /\ disk = <<>>
    /\ pip = [installed |-> InstalledListing, outdated |-> OutdatedListing]
    /\ pypi = GoodIndex
    /\ lines_to_write = <<>>
    /\ mismatches = <<>>
    /\ packages_to_update = <<>>
    /\ i = 0
    /\ outcome = "running"
    /\ effects = NoEffects
    /\ history = <<disk>>

ParseListing ==
    /\ pc = "call"
    /\ packages_to_update' = parse_pip_list_output(input).packages
    /\ outcome' = IF parse_pip_list_output(input).raised THEN "nonzero" ELSE outcome
    /\ pc' = "returned"
    /\ UNCHANGED <<args, linesep, disk, pip, pypi, mismatches, lines_to_write, i, effects,
                   input, history>>

NextParse == ParseListing

SpecParse == InitParse /\ [][NextParse]_vars

----------------------------------------------------------------------------
(* The claims *)

\* the packages the loop of lines 120 to 165 has gone through
Processed ==
    IF pc \in {"select", "exit"} THEN 1..(i - 1)
    ELSE IF pc \in {"rewrite", "done"} THEN 1..Len(packages_to_update)
    ELSE {}

TagsEqual == CpythonTag(args) = interpreter_cpython_tag

\* the digests of the --hash items of a text, in order
HashesIn(text) ==
    LET at == Sorted({p \in 1..Len(text) : StartsWithAt(text, p, "--hash=sha256:")})
    IN [k \in 1..Len(at) |->
            SubSeq(text, at[k] + Len("--hash=sha256:"),
                   SkipNonSpace(text, at[k] + Len("--hash=sha256:")) - 1)]

\* a release file that passes the three filters of the Release Selector
Eligible(f, tag) ==
    /\ f.python_version \in {"py3", "py2.py3", tag} \/ Contains(f.filename, "abi3")
    /\ f.packagetype = "bdist_wheel"
    /\ \E suffix \in {"py3-none-any.whl", "64.whl", "universal2.whl"} : EndsWith(f.filename, suffix)

EligibleFiles(files, tag) == SelectSeq(files, LAMBDA f : Eligible(f, tag))

\* the version a block of package k must pin, and the release files listed for it
WantedVersion(k) == IF TagsEqual THEN packages_to_update[k][2][2] ELSE packages_to_update[k][2][1]

WantedFiles(k) == EligibleFiles(desired_version_files(pypi[packages_to_update[k][1]], WantedVersion(k)),
                                CpythonTag(args))

Queried(k) == packages_to_update[k][1] \notin ExcludedPackages /\ pypi[packages_to_update[k][1]].kind = "ok"

\* C1: the validator runs before anything else; with --validate or a mismatch the
\* run stops after validation, having read no listing, queried no package and
\* written no file, and its status is non-zero exactly when there is a mismatch.
C1_ValidationGate ==
    /\ pc = "start" => effects = NoEffects /\ disk = history[1]
    /\ effects # NoEffects => pc \notin {"start", "validated"}
    /\ (pc # "start" /\ (args.validate \/ Len(mismatches) > 0)) =>
            /\ pc \in {"validated", "exit"}
            /\ effects = NoEffects
            /\ disk = history[1]
            /\ pc = "exit" => /\ outcome = "nonzero" <=> Len(mismatches) > 0
                              /\ outcome = "zero" <=> Len(mismatches) = 0

C1_Witness ==
    /\ pc = "exit"
    /\ ~args.validate
    /\ Len(mismatches) > 0
    /\ outcome = "nonzero"
    /\ effects = NoEffects

\* C4: a failed index query for one package does not keep the other packages
\* from being processed: at the end of the run every other package with an
\* eligible wheel has its block, and the files have been written.
C4_FailureIsolation ==
    (pc \in {"exit", "done"} /\ effects.listing # "none") =>
        \A k \in 1..Len(packages_to_update) :
            (/\ Queried(k)
             /\ WantedFiles(k) # <<>>
             /\ \E j \in 1..Len(packages_to_update) :
                    /\ packages_to_update[j][1] \notin ExcludedPackages
                    /\ pypi[packages_to_update[j][1]].kind # "ok")
            => /\ packages_to_update[k][1] \in DictKeys(lines_to_write)
               /\ effects.written = 1..Len(disk)

\* C5: a queried package has a block exactly when a release file of the wanted
\* version passes the three filters, the block's hashes are the digests of the
\* passing files in listed order, no sdist and no 32-bit wheel gives a hash,
\* and a package without a passing file does not stop the packages after it.
C5_ReleaseSelector ==
    /\ \A k \in Processed :
            Queried(k) =>
                LET package_name == packages_to_update[k][1]
                    listed == desired_version_files(pypi[package_name], WantedVersion(k))
                    hashes == IF package_name \in DictKeys(lines_to_write)
                              THEN HashesIn(DictGet(lines_to_write, package_name)) ELSE <<>>
                IN /\ package_name \in DictKeys(lines_to_write) <=> WantedFiles(k) # <<>>
                   /\ hashes = [j \in 1..Len(WantedFiles(k)) |-> WantedFiles(k)[j].digests.sha256]
                   /\ \A j \in 1..Len(listed) :
                          (listed[j].packagetype # "bdist_wheel" \/ EndsWith(listed[j].filename, "win32.whl"))
                          => \A h \in 1..Len(hashes) : hashes[h] # listed[j].digests.sha256
    /\ (pc \in {"rewrite", "done"} /\ \A k \in 1..Len(packages_to_update) : Queried(k) \/ packages_to_update[k][1] \in ExcludedPackages)
            => effects.queried = SelectSeq([k \in 1..Len(packages_to_update) |-> packages_to_update[k][1]],
                                           LAMBDA n : n \notin ExcludedPackages)

\* only an sdist and a 32-bit wheel are listed for a: a is skipped, ba is still written
C5_Witness ==
    /\ pc = "done"
    /\ \E k \in 1..Len(packages_to_update) :
            /\ packages_to_update[k][1] = "a"
            /\ Len(desired_version_files(pypi["a"], WantedVersion(k))) = 2
            /\ WantedFiles(k) = <<>>
    /\ DictKeys(lines_to_write) = {"ba"}

\* what C8 and its amendment share: the header and the line count
BlockLayout(k, first_is_pin_only) ==
    LET package_name == packages_to_update[k][1]
        lines == split_lines(DictGet(lines_to_write, package_name))
        files == WantedFiles(k)
        n == Len(files)
        prefix == "  " \o package_name \o "==" \o WantedVersion(k) \o " "
        off == IF n > 1 THEN n + 1 ELSE 0
        extra == IF first_is_pin_only THEN 1 ELSE 0
        hash_line(j) == "--hash=sha256:" \o files[j].digests.sha256 \o (IF j < n THEN " \\" ELSE "")
    IN /\ n >= 1
       /\ Len(lines) = off + n + extra + 1
       /\ lines[Len(lines)] = ""
       /\ n > 1 => /\ lines[1] = "  # Hashes correspond to the following packages:"
                   /\ \A j \in 1..n : lines[1 + j] = "  #  - " \o files[j].filename
       /\ IF first_is_pin_only
          THEN /\ lines[off + 1] = "  " \o package_name \o "==" \o WantedVersion(k) \o " \\"
               /\ \A j \in 1..n : lines[off + 1 + j] = Spaces(Len(prefix)) \o hash_line(j)
          ELSE /\ lines[off + 1] = prefix \o hash_line(1)
               /\ \A j \in 2..n : lines[off + j] = Spaces(Len(prefix)) \o hash_line(j)

HasBlock(k) == k \in Processed /\ packages_to_update[k][1] \in DictKeys(lines_to_write)

\* C8, as stated: the version-pin line is followed by k continuation lines, one
\* per hash, each indented by the length of the version-pin prefix; the comment
\* header comes first exactly when k > 1.
C8_HashesOnContinuationLines ==
    \A k \in 1..Len(packages_to_update) : HasBlock(k) => BlockLayout(k, TRUE)

\* C8, amended: the first hash stands on the version-pin line, right after the
\* prefix "  <name>==<version> "; each of the other k - 1 hashes stands on a
\* continuation line of its own, indented by the length of that prefix; the
\* comment header comes first exactly when k > 1.
C8_FirstHashOnPinLine ==
    \A k \in 1..Len(packages_to_update) : HasBlock(k) => BlockLayout(k, FALSE)

C8_Witness ==
    /\ pc = "done"
    /\ \E k \in 1..Len(packages_to_update) :
            /\ HasBlock(k)
            /\ Len(WantedFiles(k)) = 2
            /\ Len(split_lines(DictGet(lines_to_write, packages_to_update[k][1]))) = 6

\* the line that pins package_name to version
Pins(text, package_name, version) ==
    LET pin == "  " \o package_name \o "==" \o version \o " "
    IN StartsWithAt(text, 1, pin) \/ Contains(text, "\n" \o pin)

ListedVersions(name) == {DictGet(packages_to_update, name)[1], DictGet(packages_to_update, name)[2]}

\* C9: the outdated listing is read only when the target tag is the
\* interpreter's tag, the installed listing whenever the tags differ; a block
\* pins latest_version when the tags are equal and current_version otherwise.
C9_VersionSelection ==
    /\ effects.listing = "outdated" => TagsEqual
    /\ (effects.listing # "none" /\ ~TagsEqual) => effects.listing = "installed"
    /\ \A k \in 1..Len(lines_to_write) :
            LET package_name == lines_to_write[k][1]
                versions == DictGet(packages_to_update, package_name)
                wanted == IF TagsEqual THEN versions[2] ELSE versions[1]
            IN \A v \in ListedVersions(package_name) :
                    Pins(lines_to_write[k][2], package_name, v) <=> v = wanted

C9_Witness ==
    /\ pc = "done"
    /\ ~TagsEqual
    /\ effects.listing = "installed"
    /\ \E k \in 1..Len(lines_to_write) : Pins(lines_to_write[k][2], lines_to_write[k][1], "1")

\* the identifier of a closing token "with its leading / stripped"
StripLeadingSlash(s) == IF StartsWithAt(s, 1, "/") THEN From(s, 2) ELSE s

\* one tuple per consecutive token pair whose identifiers differ
ClaimedFileMismatches(filepath, bytes) ==
    LET pairs == pairwise(find_hints(ReadText(bytes)))
        differing == SelectSeq(pairs, LAMBDA pr : pr[1] # StripLeadingSlash(pr[2]))
    IN [k \in 1..Len(differing) |-> <<filepath, differing[k][1], StripLeadingSlash(differing[k][2])>>]

RECURSIVE ClaimedMismatchesFrom(_, _)
ClaimedMismatchesFrom(d, k) ==
    IF k > Len(d) THEN <<>>
    ELSE ClaimedFileMismatches(external_project_filepaths(d)[k], d[k]) \o ClaimedMismatchesFrom(d, k + 1)

\* C3: the validator returns exactly one tuple (filepath, first, second without
\* its leading "/") for each consecutive token pair of each file whose first
\* identifier differs from the second one without its leading "/".
C3_OneTuplePerDifferingPair ==
    pc # "start" => mismatches = ClaimedMismatchesFrom(history[1], 1)

\* the spans from an opening token to the closing token the validator pairs with it
ValidatedSpans(text) ==
    LET m == FindHintsFrom(text, 1)
    IN {<<m[2 * k - 1].tag, m[2 * k].end - 1>> : k \in 1..(Len(m) \div 2)}

\* C10: in a file the validator finds no mismatch in, every span the rewriter
\* replaces runs from an opening token to the closing token the validator
\* paired with it.
C10_RewritesOnlyValidatedPairs ==
    pc \in {"rewrite", "done"} =>
        \A f \in 1..Len(history[1]) :
            FileMismatches(external_project_filepaths(history[1])[f], history[1][f]) = <<>> =>
                \A k \in 1..Len(lines_to_write) :
                    LET spans == BlockSpans(ReadText(history[1][f]), lines_to_write[k][1])
                    IN \A j \in 1..Len(spans) : spans[j] \in ValidatedSpans(ReadText(history[1][f]))

\* leftmost position >= p where lit stands, 0 when there is none
LiteralFind(s, p, lit) ==
    LET found == {q \in p..Len(s) : StartsWithAt(s, q, lit)}
    IN IF found = {} THEN 0 ELSE Min(found)

\* the spans from "# [name]" to the next "# [/name]", leftmost first
RECURSIVE LiteralSpansFrom(_, _, _)
LiteralSpansFrom(s, p, name) ==
    LET o == LiteralFind(s, p, "# [" \o name \o "]")
        c == IF o = 0 THEN 0 ELSE LiteralFind(s, o + Len("# [" \o name \o "]"), "# [/" \o name \o "]")
    IN IF o = 0 \/ c = 0 THEN <<>>
       ELSE <<<<o, c + Len("# [/" \o name \o "]") - 1>>>> \o LiteralSpansFrom(s, c + Len("# [/" \o name \o "]"), name)

\* the positions of bytes inside a span of one of the names
Covered(bytes, names) ==
    {p \in 1..Len(bytes) :
        \E name \in names :
            \E j \in 1..Len(LiteralSpansFrom(bytes, 1, name)) :
                /\ LiteralSpansFrom(bytes, 1, name)[j][1] <= p
                /\ p <= LiteralSpansFrom(bytes, 1, name)[j][2]}

\* the maximal pieces of bytes outside every span, in order
OutsideSegments(bytes, names) ==
    LET cov == Covered(bytes, names)
        starts == Sorted({p \in 1..Len(bytes) : p \notin cov /\ (p = 1 \/ (p - 1) \in cov)})
    IN [k \in 1..Len(starts) |->
            SubSeq(bytes, starts[k],
                   Min({q \in starts[k]..Len(bytes) : q = Len(bytes) \/ (q + 1) \in cov}))]

\* the pieces segs[k..] stand in `after` at or after p, in order, the last one at the end if anchored
RECURSIVE Embeds(_, _, _, _, _)
Embeds(after, p, segs, k, end_anchored) ==
    IF k > Len(segs) THEN TRUE
    ELSE IF k = Len(segs) /\ end_anchored
    THEN Len(after) - Len(segs[k]) + 1 >= p /\ EndsWith(after, segs[k])
    ELSE /\ LiteralFind(after, p, segs[k]) # 0
         /\ Embeds(after, LiteralFind(after, p, segs[k]) + Len(segs[k]), segs, k + 1, end_anchored)

OutsideKept(before, after, names) ==
    LET cov == Covered(before, names)
        segs == OutsideSegments(before, names)
    IN IF cov = {} THEN after = before
       ELSE IF 1 \notin cov
       THEN /\ StartsWithAt(after, 1, segs[1])
            /\ Embeds(after, Len(segs[1]) + 1, segs, 2, Len(before) \notin cov)
       ELSE Embeds(after, 1, segs, 1, Len(before) \notin cov)

\* C2: after the file loop, what a file held outside every span from "# [name]"
\* to "# [/name]" of a package with a generated block is still there, byte for
\* byte and in order; a file without such a span is unchanged.
C2_OutsideSpansUntouched ==
    pc = "done" =>
        \A f \in 1..Len(disk) : OutsideKept(history[1][f], disk[f], DictKeys(lines_to_write))

\* C7: the file loop run a second time with the same mapping leaves every file
\* as the first run left it.
C7_RewriteIdempotent ==
    (pc = "done" /\ Len(history) = 2) => disk = history[2]

C7_Witness ==
    /\ pc = "done"
    /\ Len(history) = 2
    /\ Len(lines_to_write) = 2
    /\ Len(BlockSpans(ReadText(history[1][1]), "a")) = 1
    /\ Len(BlockSpans(ReadText(history[1][1]), "ba")) = 1
    /\ history[2] # history[1]
    /\ disk = history[2]

HasEmptyLastLine(lines) == Len(lines) > Len(Headings) /\ lines[Len(lines)] = ""

\* the N data rows of a listing
DataRows(lines) == SubSeq(lines, Len(Headings) + 1, Len(lines) - (IF HasEmptyLastLine(lines) THEN 1 ELSE 0))

\* one entry per name of the rows, holding the versions of the last row with that name
KeepsLastOfEachName(result, rows) ==
    /\ DictKeys(result) = {split(rows[k])[1] : k \in 1..Len(rows)}
    /\ Len(result) = Cardinality(DictKeys(result))
    /\ \A k \in 1..Len(rows) :
            (\A j \in (k + 1)..Len(rows) : split(rows[j])[1] # split(rows[k])[1])
            => DictGet(result, split(rows[k])[1])
                   = <<split(rows[k])[2], IF Len(split(rows[k])) >= 3 THEN split(rows[k])[3] ELSE split(rows[k])[2]>>

\* C6, as stated: two heading lines and N rows, with or without an empty last
\* line, give one entry per distinct name (N entries when the names are
\* distinct), the last row of a repeated name being the one kept.
C6_EveryRowParsed ==
    pc = "returned" => KeepsLastOfEachName(packages_to_update, DataRows(input))

\* C6, amended: that holds of a listing that ends with an empty line; of a
\* listing without one, the last row is not parsed and the result is that of
\* the first N - 1 rows.
C6_LastLineNeverParsed ==
    pc = "returned" =>
        KeepsLastOfEachName(packages_to_update,
                            IF HasEmptyLastLine(input) THEN DataRows(input)
                            ELSE SubSeq(DataRows(input), 1, Len(DataRows(input)) - 1))

C6_Witness ==
    /\ pc = "returned"
    /\ ~HasEmptyLastLine(input)
    /\ Len(DataRows(input)) = 3
    /\ Len(packages_to_update) = 2

====
